---- MODULE Spec2Model ----
(***************************************************************************)
(* The store reconciliation engine of packages/mongo/collection:           *)
(* the two stores that Mongo.Collection registers with its connection      *)
(* (wrappedStoreClient, the soft-merge store, and wrappedStoreServer, the  *)
(* strict store), applied to a LocalCollection document table whose        *)
(* observers can be paused and resumed.                                    *)
(***************************************************************************)
EXTENDS Integers, FiniteSets, Sequences, TLC

----------------------------------------------------------------------------
(* Bounds of the model. *)

MaxId == 2
MaxVal == 2
MaxBatch == 2
MaxLen == 2
MaxStops == 2

(* JavaScript's undefined: the "absent" sentinel of a field of a message,  *)
(* and what reading a missing key of a document gives.                     *)
Undef == 0

Ids == 1..MaxId
Values == 1..MaxVal
Fields == {"a", "b"}
FieldVals == Values \cup {Undef}

(* The functions from a subset of D to R: a JavaScript object whose keys   *)
(* are among D.                                                            *)
PFun(D, R) == UNION {[S -> R] : S \in SUBSET D}

(* An object with no key. *)
NoFields == [f \in {} |-> Undef]

(* The field objects of messages over the fields F and the values V: a    *)
(* changed message names a cleared field with undefined, an added message  *)
(* and a replacement document come off the wire and carry values only.     *)
ChangedFields(F, V) == PFun(F, V \cup {Undef})
Documents(F, V) == PFun(F, V)

(* The document tables: _docs, an id map (a document's _id is the key it   *)
(* is stored under).                                                       *)
Tables == PFun(Ids, Documents(Fields, Values))
EmptyTable == [i \in {} |-> NoFields]

(* msg.replace: undefined (<<>>) or one full document, whose _id is the    *)
(* message's id.                                                           *)
Replacements(i, F, V) ==
  {<<>>} \cup {<<[_id |-> i, fields |-> d]>> : d \in Documents(F, V)}

Msg(k, i, f, r) == [msg |-> k, id |-> i, fields |-> f, replace |-> r]

(* The messages a store's update is called with, over the fields F and     *)
(* the values V.                                                           *)
MsgsOver(F, V) ==
  UNION {
    {Msg("added", i, f, <<>>) : f \in Documents(F, V)}
      \cup {Msg("changed", i, f, <<>>) : f \in ChangedFields(F, V)}
      \cup {Msg("removed", i, NoFields, <<>>), Msg("bogus", i, NoFields, <<>>)}
      \cup {Msg("replace", i, NoFields, r) : r \in Replacements(i, F, V)}
    : i \in Ids}

Msgs == MsgsOver(Fields, Values)

(* The messages of the batches: one field with one value is enough to tell *)
(* the states of a batch apart (a document absent, empty or with the       *)
(* field).                                                                 *)
BatchFields == {"a"}
BatchValues == {1}
BatchMsgs == MsgsOver(BatchFields, BatchValues)

NoPending == [i \in Ids |-> "none"]

(* doc[key] in JavaScript: undefined when the key is missing. *)
Get(doc, key) == IF key \in DOMAIN doc THEN doc[key] ELSE Undef

----------------------------------------------------------------------------
(* The document table with its observers (LocalCollection). A run state s  *)
(* is the table and what one call of a store has done so far:              *)
(*   docs     the documents by id                                          *)
(*   paused   whether observer notifications are paused                    *)
(*   pending  the notifications buffered while paused, coalesced by id     *)
(*   out      the notifications dispatched to observers during the call    *)
(*   err      the error the call has thrown, "none" if it has not          *)
(*   op       the table operation the call has issued, "none" if none      *)

Throw(s, e) == [s EXCEPT !.err = e]

(* One more event on a document whose buffered event is old. *)
Coalesce(old, kind) ==
  CASE old = "none" -> kind
    [] old = "added" /\ kind = "removed" -> "none"
    [] old = "added" -> "added"
    [] old = "changed" /\ kind = "removed" -> "removed"
    [] old = "changed" -> "changed"
    [] old = "removed" /\ kind = "added" -> "changed"
    [] OTHER -> old

(* An event of kind `kind` on each document of ids: dispatched to the      *)
(* observers now, or buffered when they are paused.                        *)
Notify(s, kind, ids) ==
  IF s.paused
    THEN [s EXCEPT !.pending =
            [i \in Ids |-> IF i \in ids THEN Coalesce(@[i], kind) ELSE @[i]]]
    ELSE [s EXCEPT !.out = @ \cup {[kind |-> kind, id |-> i] : i \in ids}]

PauseObservers(s) == IF s.paused THEN s ELSE [s EXCEPT !.paused = TRUE]

ResumeObservers(s) ==
  IF ~s.paused THEN s
  ELSE [s EXCEPT !.paused = FALSE,
                 !.pending = NoPending,
                 !.out = @ \cup {[kind |-> s.pending[i], id |-> i] :
                                   i \in {j \in Ids : s.pending[j] # "none"}}]

(* insert(doc) *)
Insert(s, id, fields) ==
  IF id \in DOMAIN s.docs THEN Throw([s EXCEPT !.op = "insert"], "duplicate_id")
  ELSE Notify([s EXCEPT !.op = "insert",
                        !.docs = [i \in DOMAIN s.docs \cup {id} |->
                                    IF i = id THEN fields ELSE s.docs[i]]],
              "added", {id})

(* remove(id) *)
Remove(s, id) ==
  IF id \notin DOMAIN s.docs THEN [s EXCEPT !.op = "remove"]
  ELSE Notify([s EXCEPT !.op = "remove",
                        !.docs = [i \in DOMAIN s.docs \ {id} |-> s.docs[i]]],
              "removed", {id})

(* remove({}) *)
RemoveAll(s) ==
  Notify([s EXCEPT !.op = "removeAll", !.docs = EmptyTable],
         "removed", DOMAIN s.docs)

(* The document with the modifier {$set: set, $unset: unset} applied. *)
Modify(doc, set, unset) ==
  [f \in (DOMAIN doc \cup DOMAIN set) \ unset |->
     IF f \in DOMAIN set THEN set[f] ELSE doc[f]]

StoreDoc(s, opname, id, newdoc) ==
  IF id \notin DOMAIN s.docs THEN [s EXCEPT !.op = opname]
  ELSE IF newdoc = s.docs[id] THEN [s EXCEPT !.op = opname]
  ELSE Notify([s EXCEPT !.op = opname, !.docs[id] = newdoc], "changed", {id})

(* update(id, {$set, $unset}) *)
UpdateModifier(s, id, set, unset) ==
  StoreDoc(s, "update", id,
           IF id \in DOMAIN s.docs THEN Modify(s.docs[id], set, unset) ELSE NoFields)

(* update(id, replacement): the document becomes the replacement. *)
UpdateReplace(s, id, repl) ==
  IF repl._id # id THEN Throw([s EXCEPT !.op = "replaceDoc"], "id_mismatch")
  ELSE StoreDoc(s, "replaceDoc", id, repl.fields)

----------------------------------------------------------------------------
(* wrappedStoreServer: the strict store.  `present` is `doc`, read from    *)
(* _docs at the start of update.                                           *)

ServerBeginUpdate_NoClear(s, batchSize, reset) ==
  IF batchSize > 1 \/ reset THEN PauseObservers(s) ELSE s

(* ServerBeginUpdate pausing the observers for a large batch only. *)
ServerBeginUpdate_PauseOnlyLarge(s, batchSize, reset) ==
  LET p == IF batchSize > 1 THEN PauseObservers(s) ELSE s
  IN  IF reset THEN RemoveAll(p) ELSE p

ServerBeginUpdate(s, batchSize, reset) ==
  LET p == IF batchSize > 1 \/ reset THEN PauseObservers(s) ELSE s
  IN  IF reset THEN RemoveAll(p) ELSE p

(* ServerReplace with the update of an existing document a field merge. *)
ServerReplace_Merge(s, msg) ==
  LET present == msg.id \in DOMAIN s.docs
      replace == msg.replace
  IN  IF replace = <<>>
        THEN IF present THEN Remove(s, msg.id) ELSE s
      ELSE IF ~present THEN Insert(s, replace[1]._id, replace[1].fields)
      ELSE UpdateModifier(s, msg.id, replace[1].fields, {})

(* ServerReplace with an undefined replacement handled as a removed        *)
(* message.                                                                *)
ServerReplace_AsRemoved(s, msg) ==
  LET present == msg.id \in DOMAIN s.docs
      replace == msg.replace
  IN  IF replace = <<>>
        THEN IF present THEN Remove(s, msg.id) ELSE Throw(s, "remove_absent")
      ELSE IF ~present THEN Insert(s, replace[1]._id, replace[1].fields)
      ELSE UpdateReplace(s, msg.id, replace[1])

ServerReplace(s, msg) ==
  LET present == msg.id \in DOMAIN s.docs
      replace == msg.replace
  IN  IF replace = <<>>
        THEN IF present THEN Remove(s, msg.id) ELSE s
      ELSE IF ~present THEN Insert(s, replace[1]._id, replace[1].fields)
      ELSE UpdateReplace(s, msg.id, replace[1])

ServerAdded_NoPresenceCheck(s, msg) == Insert(s, msg.id, msg.fields)

ServerAdded(s, msg) ==
  IF msg.id \in DOMAIN s.docs THEN Throw(s, "add_present")
  ELSE Insert(s, msg.id, msg.fields)

ServerRemoved_NoPresenceCheck(s, msg) == Remove(s, msg.id)

(* ServerRemoved with the selector {} for the identifier. *)
ServerRemoved_EmptySelector(s, msg) ==
  IF msg.id \notin DOMAIN s.docs THEN Throw(s, "remove_absent")
  ELSE RemoveAll(s)

(* ServerRemoved with the test of presence after the remove. *)
ServerRemoved_CheckAfterRemove(s, msg) ==
  LET r == Remove(s, msg.id)
  IN  IF msg.id \notin DOMAIN s.docs THEN Throw(r, "remove_absent") ELSE r

ServerRemoved(s, msg) ==
  IF msg.id \notin DOMAIN s.docs THEN Throw(s, "remove_absent")
  ELSE Remove(s, msg.id)

(* ServerModifier without the test for undefined: every differing key is  *)
(* set.                                                                    *)
ServerModifier_SetUndefined(doc, fields) ==
  LET differ == {k \in DOMAIN fields : Get(doc, k) # fields[k]}
  IN  [set |-> [k \in differ |-> fields[k]], unset |-> {}]

(* ServerModifier without the EJSON.equals test: every key is in the       *)
(* modifier.                                                               *)
ServerModifier_NoEqualitySkip(doc, fields) ==
  [set |-> [k \in {j \in DOMAIN fields : fields[j] # Undef} |-> fields[k]],
   unset |-> {k \in DOMAIN fields : fields[k] = Undef}]

(* The modifier of a changed message: the keys whose value differs from    *)
(* the document's, unset when the value is undefined and set otherwise.    *)
ServerModifier(doc, fields) ==
  LET differ == {k \in DOMAIN fields : Get(doc, k) # fields[k]}
  IN  [set |-> [k \in {j \in differ : fields[j] # Undef} |-> fields[k]],
       unset |-> {k \in differ : fields[k] = Undef}]

ServerChanged(s, msg) ==
  IF msg.id \notin DOMAIN s.docs THEN Throw(s, "change_absent")
  ELSE IF DOMAIN msg.fields = {} THEN s
  ELSE LET modifier == ServerModifier(s.docs[msg.id], msg.fields)
       IN  IF DOMAIN modifier.set = {} /\ modifier.unset = {} THEN s
           ELSE UpdateModifier(s, msg.id, modifier.set, modifier.unset)

(* ServerUpdate with no final else: an unknown kind is ignored. *)
ServerUpdate_IgnoresUnknown(s, msg) ==
  CASE msg.msg = "replace" -> ServerReplace(s, msg)
    [] msg.msg = "added" -> ServerAdded(s, msg)
    [] msg.msg = "removed" -> ServerRemoved(s, msg)
    [] msg.msg = "changed" -> ServerChanged(s, msg)
    [] OTHER -> s

ServerUpdate(s, msg) ==
  CASE msg.msg = "replace" -> ServerReplace(s, msg)
    [] msg.msg = "added" -> ServerAdded(s, msg)
    [] msg.msg = "removed" -> ServerRemoved(s, msg)
    [] msg.msg = "changed" -> ServerChanged(s, msg)
    [] OTHER -> Throw(s, "unknown_msg")

ServerEndUpdate(s) == ResumeObservers(s)

----------------------------------------------------------------------------
(* wrappedStoreClient: the soft-merge store.  s.msg is the message object, *)
(* which update rewrites in place; s.done says that update has returned.   *)

ClientBeginUpdate_PauseOnlyOnReset(s, batchSize, reset) ==
  LET p == IF reset THEN PauseObservers(s) ELSE s
  IN  IF reset THEN RemoveAll(p) ELSE p

ClientBeginUpdate_ClearBeforePause(s, batchSize, reset) ==
  LET c == IF reset THEN RemoveAll(s) ELSE s
  IN  IF batchSize > 1 \/ reset THEN PauseObservers(c) ELSE c

(* ClientBeginUpdate clearing the table only for a batch with messages. *)
ClientBeginUpdate_ClearOnlyNonEmptyBatch(s, batchSize, reset) ==
  LET p == IF batchSize > 1 \/ reset THEN PauseObservers(s) ELSE s
  IN  IF reset /\ batchSize > 0 THEN RemoveAll(p) ELSE p

ClientBeginUpdate(s, batchSize, reset) ==
  LET p == IF batchSize > 1 \/ reset THEN PauseObservers(s) ELSE s
  IN  IF reset THEN RemoveAll(p) ELSE p

(* ClientNormalize with one of its branches lost. *)
ClientNormalize_NoAddRewrite(s) ==
  LET msg == s.msg
      present == msg.id \in DOMAIN s.docs
  IN  IF msg.msg = "removed" /\ ~present
        THEN [s EXCEPT !.done = TRUE]
      ELSE IF msg.msg = "changed" /\ ~present
        THEN [s EXCEPT !.msg.msg = "added",
                       !.msg.fields =
                         [f \in {g \in DOMAIN msg.fields : msg.fields[g] # Undef}
                            |-> msg.fields[f]]]
      ELSE s

ClientNormalize_NoFilter(s) ==
  LET msg == s.msg
      present == msg.id \in DOMAIN s.docs
  IN  IF msg.msg = "added" /\ present
        THEN [s EXCEPT !.msg.msg = "changed"]
      ELSE IF msg.msg = "removed" /\ ~present
        THEN [s EXCEPT !.done = TRUE]
      ELSE IF msg.msg = "changed" /\ ~present
        THEN [s EXCEPT !.msg.msg = "added"]
      ELSE s

ClientNormalize_NoRemoveSkip(s) ==
  LET msg == s.msg
      present == msg.id \in DOMAIN s.docs
  IN  IF msg.msg = "added" /\ present
        THEN [s EXCEPT !.msg.msg = "changed"]
      ELSE IF msg.msg = "changed" /\ ~present
        THEN [s EXCEPT !.msg.msg = "added",
                       !.msg.fields =
                         [f \in {g \in DOMAIN msg.fields : msg.fields[g] # Undef}
                            |-> msg.fields[f]]]
      ELSE s

ClientNormalize_NoChangeRewrite(s) ==
  LET msg == s.msg
      present == msg.id \in DOMAIN s.docs
  IN  IF msg.msg = "added" /\ present
        THEN [s EXCEPT !.msg.msg = "changed"]
      ELSE IF msg.msg = "removed" /\ ~present
        THEN [s EXCEPT !.done = TRUE]
      ELSE s

(* The mergebox-disabled rewriting at the head of update. *)
ClientNormalize(s) ==
  LET msg == s.msg
      present == msg.id \in DOMAIN s.docs
  IN  IF msg.msg = "added" /\ present
        THEN [s EXCEPT !.msg.msg = "changed"]
      ELSE IF msg.msg = "removed" /\ ~present
        THEN [s EXCEPT !.done = TRUE]
      ELSE IF msg.msg = "changed" /\ ~present
        THEN [s EXCEPT !.msg.msg = "added",
                       !.msg.fields =
                         [f \in {g \in DOMAIN msg.fields : msg.fields[g] # Undef}
                            |-> msg.fields[f]]]
      ELSE s

(* ClientReplace with the update of an existing document lost. *)
ClientReplace_KeepsExisting(s) ==
  LET msg == s.msg
      present == msg.id \in DOMAIN s.docs
      replace == msg.replace
  IN  IF replace = <<>>
        THEN IF present THEN Remove(s, msg.id) ELSE s
      ELSE IF ~present THEN Insert(s, replace[1]._id, replace[1].fields)
      ELSE s

(* ClientAdded buffering the message while the observers are paused, the   *)
(* insert left for later.                                                  *)
ClientAdded_DeferredWhilePaused(s) ==
  IF s.msg.id \in DOMAIN s.docs THEN Throw(s, "add_present")
  ELSE IF s.paused THEN Notify([s EXCEPT !.op = "insert"], "added", {s.msg.id})
  ELSE Insert(s, s.msg.id, s.msg.fields)

ClientReplace(s) ==
  LET msg == s.msg
      present == msg.id \in DOMAIN s.docs
      replace == msg.replace
  IN  IF replace = <<>>
        THEN IF present THEN Remove(s, msg.id) ELSE s
      ELSE IF ~present THEN Insert(s, replace[1]._id, replace[1].fields)
      ELSE UpdateReplace(s, msg.id, replace[1])

ClientAdded(s) ==
  IF s.msg.id \in DOMAIN s.docs THEN Throw(s, "add_present")
  ELSE Insert(s, s.msg.id, s.msg.fields)

ClientRemoved(s) ==
  IF s.msg.id \notin DOMAIN s.docs THEN Throw(s, "remove_absent")
  ELSE Remove(s, s.msg.id)

(* ClientModifier without the EJSON.equals test. *)
ClientModifier_NoEqualitySkip(doc, fields) ==
  [set |-> [k \in {j \in DOMAIN fields : fields[j] # Undef} |-> fields[k]],
   unset |-> {k \in DOMAIN fields : fields[k] = Undef}]

(* ClientModifier unsetting the fields the message does not name. *)
ClientModifier_UnsetsUnnamed(doc, fields) ==
  LET differ == {k \in DOMAIN fields : Get(doc, k) # fields[k]}
  IN  [set |-> [k \in {j \in differ : fields[j] # Undef} |-> fields[k]],
       unset |-> {k \in differ : fields[k] = Undef}
                   \cup (DOMAIN doc \ DOMAIN fields)]

ClientModifier(doc, fields) ==
  LET differ == {k \in DOMAIN fields : Get(doc, k) # fields[k]}
  IN  [set |-> [k \in {j \in differ : fields[j] # Undef} |-> fields[k]],
       unset |-> {k \in differ : fields[k] = Undef}]

(* ClientChanged without the test of an empty modifier. *)
ClientChanged_AlwaysUpdates(s) ==
  LET msg == s.msg
  IN  IF msg.id \notin DOMAIN s.docs THEN Throw(s, "change_absent")
      ELSE LET modifier == ClientModifier(s.docs[msg.id], msg.fields)
           IN  UpdateModifier(s, msg.id, modifier.set, modifier.unset)

ClientChanged(s) ==
  LET msg == s.msg
  IN  IF msg.id \notin DOMAIN s.docs THEN Throw(s, "change_absent")
      ELSE IF DOMAIN msg.fields = {} THEN s
      ELSE LET modifier == ClientModifier(s.docs[msg.id], msg.fields)
           IN  IF DOMAIN modifier.set = {} /\ modifier.unset = {} THEN s
               ELSE UpdateModifier(s, msg.id, modifier.set, modifier.unset)

(* `doc` is read once, before the rewriting, which does not touch _docs.   *)
ClientUpdate(s) ==
  LET n == ClientNormalize(s)
  IN  IF n.done THEN n
      ELSE [(CASE n.msg.msg = "replace" -> ClientReplace(n)
               [] n.msg.msg = "added" -> ClientAdded(n)
               [] n.msg.msg = "removed" -> ClientRemoved(n)
               [] n.msg.msg = "changed" -> ClientChanged(n)
               [] OTHER -> Throw(n, "unknown_msg"))
            EXCEPT !.done = TRUE]

ClientEndUpdate(s) == ResumeObservers(s)

----------------------------------------------------------------------------
(* Mongo.Collection._rewriteSelector. A JavaScript value is a record: its  *)
(* type t, a number v (the boolean 0/1, the number, the string's index,    *)
(* 0 being the empty string, or the array's length) and, for an object,    *)
(* its fields.                                                             *)

JS(t, v, f) == [t |-> t, v |-> v, fields |-> f]

JSUndefined == JS("undefined", 0, <<>>)
JSString(n) == JS("string", n, <<>>)

(* The scalars a selector, an _id or a fallbackId can be. *)
Scalars ==
  {JSUndefined, JS("null", 0, <<>>), JS("objectID", 0, <<>>)}
    \cup {JS("boolean", b, <<>>) : b \in {0, 1}}
    \cup {JS("number", n, <<>>) : n \in 0..MaxVal}
    \cup {JSString(n) : n \in 0..MaxVal}

JSObject(f) == JS("object", 0, f)

SelectorFields == {"_id", "a"}
Arrays == {JS("array", n, <<>>) : n \in 0..MaxLen}
Objects == {JSObject(f) : f \in PFun(SelectorFields, Scalars)}
Selectors == Scalars \cup Arrays \cup Objects

(* Random.id() returns a string no caller holds. *)
RandomIds == {JSString(n) : n \in (MaxVal + 1)..(MaxVal + 2)}

(* !!x *)
Truthy(x) ==
  CASE x.t \in {"undefined", "null"} -> FALSE
    [] x.t \in {"boolean", "number", "string"} -> x.v # 0
    [] OTHER -> TRUE

(* LocalCollection._selectorIsId: a number, a string or an ObjectID. *)
SelectorIsId(x) == x.t \in {"number", "string", "objectID"}

Returns(x) == [threw |-> "none", value |-> x]
Throws(e) == [threw |-> e, value |-> JSUndefined]

(* _rewriteSelector throwing for an array that has elements only. *)
RewriteSelector_EmptyArrayPasses(selector, fallbackId, randomId) ==
  LET s == IF SelectorIsId(selector) THEN JSObject([k \in {"_id"} |-> selector])
                                     ELSE selector
      id == IF Truthy(fallbackId) THEN fallbackId ELSE randomId
  IN  IF s.t = "array" /\ s.v > 0 THEN Throws("selector_array")
      ELSE IF ~Truthy(s)
        THEN Returns(JSObject([k \in {"_id"} |-> id]))
      ELSE IF s.t \notin {"object", "array"} THEN Throws("TypeError")
      ELSE IF "_id" \in DOMAIN s.fields /\ ~Truthy(s.fields["_id"])
        THEN Returns(JSObject([k \in {"_id"} |-> id]))
      ELSE Returns(s)

(* _rewriteSelector without the test of a falsy _id. *)
RewriteSelector_NoIdTest(selector, fallbackId, randomId) ==
  LET s == IF SelectorIsId(selector) THEN JSObject([k \in {"_id"} |-> selector])
                                     ELSE selector
      id == IF Truthy(fallbackId) THEN fallbackId ELSE randomId
  IN  IF s.t = "array" THEN Throws("selector_array")
      ELSE IF ~Truthy(s)
        THEN Returns(JSObject([k \in {"_id"} |-> id]))
      ELSE IF s.t # "object" THEN Throws("TypeError")
      ELSE Returns(s)

(* _rewriteSelector without the shorthand for a scalar. *)
RewriteSelector_NoShorthand(selector, fallbackId, randomId) ==
  LET s == selector
      id == IF Truthy(fallbackId) THEN fallbackId ELSE randomId
  IN  IF s.t = "array" THEN Throws("selector_array")
      ELSE IF ~Truthy(s)
        THEN Returns(JSObject([k \in {"_id"} |-> id]))
      ELSE IF s.t # "object" THEN Throws("TypeError")
      ELSE IF "_id" \in DOMAIN s.fields /\ ~Truthy(s.fields["_id"])
        THEN Returns(JSObject([k \in {"_id"} |-> id]))
      ELSE Returns(s)

(* randomId is what Random.id() returns if it is called. The in operator   *)
(* on a primitive that is not falsy is a TypeError.                        *)
RewriteSelector(selector, fallbackId, randomId) ==
  LET s == IF SelectorIsId(selector) THEN JSObject([k \in {"_id"} |-> selector])
                                     ELSE selector
      id == IF Truthy(fallbackId) THEN fallbackId ELSE randomId
  IN  IF s.t = "array" THEN Throws("selector_array")
      ELSE IF ~Truthy(s)
        THEN Returns(JSObject([k \in {"_id"} |-> id]))
      ELSE IF s.t # "object" THEN Throws("TypeError")
      ELSE IF "_id" \in DOMAIN s.fields /\ ~Truthy(s.fields["_id"])
        THEN Returns(JSObject([k \in {"_id"} |-> id]))
      ELSE Returns(s)

----------------------------------------------------------------------------
(* Mongo.Collection._publishCursor. *)

CollectionNames == {"posts", "users"}

(* An event of the live query: observeChanges calls back with it. *)
QueryEvent(kind, id, fields) == [kind |-> kind, id |-> id, fields |-> fields]

QueryEvents ==
  {QueryEvent("added", i, f) : i \in Ids, f \in Documents(BatchFields, BatchValues)}
    \cup {QueryEvent("changed", i, f) :
            i \in Ids, f \in ChangedFields(BatchFields, BatchValues)}
    \cup {QueryEvent("removed", i, NoFields) : i \in Ids}

(* A call of a method of the subscription. *)
SubCall(method, collection, id, fields) ==
  [method |-> method, collection |-> collection, id |-> id, fields |-> fields]

(* The callbacks with changed forwarded as added. *)
Callbacks_ChangedAsAdded(collection, e) ==
  CASE e.kind = "added" -> SubCall("added", collection, e.id, e.fields)
    [] e.kind = "changed" -> SubCall("added", collection, e.id, e.fields)
    [] e.kind = "removed" -> SubCall("removed", collection, e.id, NoFields)

(* The callbacks given to observeChanges: the call each makes. *)
Callbacks(collection, e) ==
  CASE e.kind = "added" -> SubCall("added", collection, e.id, e.fields)
    [] e.kind = "changed" -> SubCall("changed", collection, e.id, e.fields)
    [] e.kind = "removed" -> SubCall("removed", collection, e.id, NoFields)

(* observeHandle.stop(): the live query calls back no more. *)
HandleStop(p) == [p EXCEPT !.stopped = TRUE]

(* The stop callback doing nothing. *)
OnStopCallback_NoStop(p) == p

(* The function given to sub.onStop. *)
OnStopCallback(p) == HandleStop(p)

----------------------------------------------------------------------------
(* The registration of the store in _maybeSetUpReplication. r is the run   *)
(* state of the call: what was written to the console, what was thrown.    *)

(* What registerStoreClient / registerStoreServer returns: a value, or a   *)
(* promise and what it settles to.                                         *)
RegisterResults ==
  [promise : BOOLEAN, value : {"undefined", "false", "true", "rejected"}]
    \ {[promise |-> FALSE, value |-> "rejected"]}

RegisterFalsy(value) == value \in {"undefined", "false"}

(* logWarn: console.warn when there is one, else console.log. *)
LogWarn(r) ==
  [r EXCEPT !.console =
     Append(@, [method |-> IF r.hasWarn THEN "warn" ELSE "log",
                message |-> "There is already a collection named",
                name |-> r.name])]

(* The test of the returned value throwing the message. *)
AfterRegister_Throws(r) ==
  IF ~r.result.promise /\ RegisterFalsy(r.result.value)
    THEN [r EXCEPT !.pc = "done", !.threw = "There is already a collection named"]
  ELSE IF r.result.promise THEN [r EXCEPT !.pc = "awaiting"]
  ELSE [r EXCEPT !.pc = "done"]

(* if (!registerStoreResult) return logWarn();                             *)
(* return registerStoreResult?.then?.(...)                                 *)
AfterRegister(r) ==
  IF ~r.result.promise /\ RegisterFalsy(r.result.value)
    THEN [LogWarn(r) EXCEPT !.pc = "done"]
  ELSE IF r.result.promise THEN [r EXCEPT !.pc = "awaiting"]
  ELSE [r EXCEPT !.pc = "done"]

(* ok => { if (!ok) logWarn(); }, or the rejection passed on. *)
ThenCallback(r) ==
  IF r.result.value = "rejected"
    THEN [r EXCEPT !.pc = "done", !.threw = "rejected"]
  ELSE IF RegisterFalsy(r.result.value)
    THEN [LogWarn(r) EXCEPT !.pc = "done"]
  ELSE [r EXCEPT !.pc = "done"]

----------------------------------------------------------------------------
(* The state: one replicated collection, its registered store and the      *)
(* connection that delivers batches to it.                                 *)

VARIABLES
  isClient,      \* Meteor.isClient: the client store is the registered one
  docs,          \* self._collection._docs
  paused,        \* self._collection.paused
  pending,       \* the notifications buffered while paused
  delivered,     \* the notifications dispatched to observers by the last call
  err,           \* the error thrown by the last call, "none" if none
  op,            \* the table operation issued by the last call
  pc,            \* "idle" | "open" | "failed": where the connection is in a batch
  batchSize,     \* the batchSize of the last beginUpdate
  batchReset,    \* the reset of the last beginUpdate
  batchAdds,     \* the documents of the added messages passed to update in the batch
  batchOnlyAdds, \* every message of the batch so far is an added for a fresh id
  tracking,      \* lastMsg is recorded (and the added documents are not)
  lastMsg,       \* the last message update has applied to the document Watched
  openBatches,   \* the batches begun and neither ended nor failed
  msgIn,         \* the message a single update call is made with
  msgOut,        \* that message object after the call
  docs0,         \* the table before that call
  sel,           \* a call of _rewriteSelector: its arguments and its outcome
  pub,           \* a call of _publishCursor: the live query, the subscription
  reg,           \* the registration of the store with the connection
  inflight,      \* the update calls made on the server store without waiting
  colls,         \* Mongo._collections and the constructions made so far
  idx            \* a call of createIndexAsync: the driver's answers, the calls

vars == <<isClient, docs, paused, pending, delivered, err, op, pc, batchSize,
          batchReset, batchAdds, batchOnlyAdds, tracking, lastMsg, openBatches,
          msgIn, msgOut, docs0, sel, pub, reg, inflight, colls, idx>>

batchVars == <<batchSize, batchReset, batchAdds, batchOnlyAdds, tracking, lastMsg>>

(* The document whose messages are recorded; the identifiers are alike. *)
Watched == CHOOSE i \in Ids : TRUE

(* No message has been applied to Watched since the table was empty. *)
NoLastMsg == Msg("none", Watched, NoFields, <<>>)
callVars == <<msgIn, msgOut, docs0>>

storeVars == <<isClient, docs, paused, pending, delivered, err, op, pc,
               batchVars, openBatches, callVars>>

(* No call of _rewriteSelector is made. *)
SelOff == [pc |-> "off"]

(* No cursor is published. *)
PubOff == [pc |-> "off"]

(* No store is registered. *)
RegOff == [pc |-> "off"]

(* No collection is constructed. *)
CollsOff == [pc |-> "off"]

(* No index is created. *)
IdxOff == [pc |-> "off"]

restVars == <<inflight, colls, idx>>
RestOff == inflight = <<>> /\ colls = CollsOff /\ idx = IdxOff

auxVars == <<sel, pub, reg, restVars>>
AuxOff == sel = SelOff /\ pub = PubOff /\ reg = RegOff /\ RestOff

(* The store is not used. *)
StoreOff ==
  /\ isClient = FALSE
  /\ docs = EmptyTable
  /\ paused = FALSE
  /\ pending = NoPending
  /\ delivered = {}
  /\ err = "none"
  /\ op = "none"
  /\ pc = "off"
  /\ batchSize = 0
  /\ batchReset = FALSE
  /\ batchAdds = EmptyTable
  /\ batchOnlyAdds = TRUE
  /\ tracking = FALSE
  /\ lastMsg = NoLastMsg
  /\ openBatches = 0
  /\ msgIn = <<>>
  /\ msgOut = <<>>
  /\ docs0 = EmptyTable

(* The run state at the start of a call. *)
Run ==
  [docs |-> docs, paused |-> paused, pending |-> pending,
   out |-> {}, err |-> "none", op |-> "none"]

RunUpdate(m) ==
  [docs |-> docs, paused |-> paused, pending |-> pending,
   out |-> {}, err |-> "none", op |-> "none", msg |-> m, done |-> FALSE]

(* The call has ended in run state r. *)
Commit(r) ==
  /\ docs' = r.docs
  /\ paused' = r.paused
  /\ pending' = r.pending
  /\ delivered' = r.out
  /\ err' = r.err
  /\ op' = r.op

Init ==
  /\ AuxOff
  /\ isClient \in BOOLEAN
  /\ docs = EmptyTable
  /\ paused = FALSE
  /\ pending = NoPending
  /\ delivered = {}
  /\ err = "none"
  /\ op = "none"
  /\ pc = "idle"
  /\ batchSize = 0
  /\ batchReset = FALSE
  /\ batchAdds = EmptyTable
  /\ batchOnlyAdds = TRUE
  /\ tracking = FALSE
  /\ lastMsg = NoLastMsg
  /\ openBatches = 0
  /\ msgIn = <<>>
  /\ msgOut = <<>>
  /\ docs0 = EmptyTable

(* BeginUpdate by a connection that does not wait for the open batch. *)
BeginUpdate_Unserialized(size, reset) ==
  /\ Commit(IF isClient THEN ClientBeginUpdate(Run, size, reset)
                        ELSE ServerBeginUpdate(Run, size, reset))
  /\ pc' = "open"
  /\ batchSize' = size
  /\ batchReset' = reset
  /\ batchAdds' = EmptyTable
  /\ batchOnlyAdds' = TRUE
  /\ lastMsg' = IF reset THEN NoLastMsg ELSE lastMsg
  /\ openBatches' = openBatches + 1
  /\ UNCHANGED <<auxVars, isClient, tracking, callVars>>

(* The connection opens a batch: store.beginUpdate(size, reset). *)
BeginUpdate(size, reset) ==
  /\ pc \in {"idle", "failed"}
  /\ Commit(IF isClient THEN ClientBeginUpdate(Run, size, reset)
                        ELSE ServerBeginUpdate(Run, size, reset))
  /\ pc' = "open"
  /\ batchSize' = size
  /\ batchReset' = reset
  /\ batchAdds' = EmptyTable
  /\ batchOnlyAdds' = TRUE
  /\ lastMsg' = IF reset THEN NoLastMsg ELSE lastMsg
  /\ openBatches' = openBatches + 1
  /\ UNCHANGED <<auxVars, isClient, tracking, callVars>>

(* store.update(m) inside the batch; an error ends the batch. *)
Update(m) ==
  /\ pc = "open"
  /\ LET r == IF isClient THEN ClientUpdate(RunUpdate(m))
                          ELSE ServerUpdate(Run, m)
         fresh == /\ batchOnlyAdds /\ ~tracking
                  /\ m.msg = "added" /\ m.id \notin DOMAIN batchAdds
     IN  /\ Commit(r)
         /\ pc' = IF r.err = "none" THEN "open" ELSE "failed"
         /\ batchOnlyAdds' = fresh
         /\ batchAdds' = IF fresh
                           THEN [i \in DOMAIN batchAdds \cup {m.id} |->
                                   IF i = m.id THEN m.fields ELSE batchAdds[i]]
                           ELSE EmptyTable
         /\ lastMsg' = IF tracking /\ r.err = "none" /\ m.id = Watched
                         THEN m
                         ELSE lastMsg
         /\ openBatches' = IF r.err = "none" THEN openBatches ELSE 0
  /\ UNCHANGED <<auxVars, isClient, batchSize, batchReset, tracking, callVars>>

(* store.endUpdate() closes the batch. *)
EndUpdate ==
  /\ pc = "open"
  /\ Commit(IF isClient THEN ClientEndUpdate(Run) ELSE ServerEndUpdate(Run))
  /\ pc' = "idle"
  /\ openBatches' = openBatches - 1
  /\ UNCHANGED <<auxVars, isClient, batchVars, callVars>>

Next ==
  \/ \E size \in 0..MaxBatch, reset \in BOOLEAN : BeginUpdate(size, reset)
  \/ \E m \in BatchMsgs : Update(m)
  \/ EndUpdate

Spec == Init /\ [][Next]_vars

(* store.endUpdate() called with no batch open. *)
StrayEndUpdate ==
  /\ pc = "idle"
  /\ Commit(IF isClient THEN ClientEndUpdate(Run) ELSE ServerEndUpdate(Run))
  /\ pc' = "strayEnd"
  /\ UNCHANGED <<auxVars, isClient, batchVars, openBatches, callVars>>

NextFraming == Next \/ StrayEndUpdate

(* The batches of Spec, and at any idle point an endUpdate out of frame. *)
SpecFraming == Init /\ [][NextFraming]_vars

(* The same connection, with the last message per identifier recorded. *)
InitOrder ==
  /\ AuxOff
  /\ isClient \in BOOLEAN
  /\ docs = EmptyTable
  /\ paused = FALSE
  /\ pending = NoPending
  /\ delivered = {}
  /\ err = "none"
  /\ op = "none"
  /\ pc = "idle"
  /\ batchSize = 0
  /\ batchReset = FALSE
  /\ batchAdds = EmptyTable
  /\ batchOnlyAdds = FALSE
  /\ tracking = TRUE
  /\ lastMsg = NoLastMsg
  /\ openBatches = 0
  /\ msgIn = <<>>
  /\ msgOut = <<>>
  /\ docs0 = EmptyTable

SpecOrder == InitOrder /\ [][Next]_vars

----------------------------------------------------------------------------
(* One call of update, on any table and any message. *)

InitMsg ==
  /\ AuxOff
  /\ isClient \in BOOLEAN
  /\ docs \in Tables
  /\ docs0 = docs
  /\ msgIn \in Msgs
  /\ msgOut = msgIn
  /\ paused \in BOOLEAN
  /\ pending = NoPending
  /\ delivered = {}
  /\ err = "none"
  /\ op = "none"
  /\ pc = "call"
  /\ batchSize = 0
  /\ batchReset = FALSE
  /\ batchAdds = EmptyTable
  /\ batchOnlyAdds = TRUE
  /\ tracking = FALSE
  /\ lastMsg = NoLastMsg
  /\ openBatches = 0

ClientCall ==
  /\ pc = "call"
  /\ isClient
  /\ LET r == ClientUpdate(RunUpdate(msgIn))
     IN  Commit(r) /\ msgOut' = r.msg
  /\ pc' = "returned"
  /\ UNCHANGED <<auxVars, isClient, batchVars, openBatches, msgIn, docs0>>

ServerCall ==
  /\ pc = "call"
  /\ ~isClient
  /\ Commit(ServerUpdate(Run, msgIn))
  /\ pc' = "returned"
  /\ UNCHANGED <<auxVars, isClient, batchVars, openBatches, callVars>>

NextMsg == ClientCall \/ ServerCall

SpecMsg == InitMsg /\ [][NextMsg]_vars

----------------------------------------------------------------------------
(* The client store given one message object twice in a row, on any table. *)

InitSoft ==
  /\ AuxOff
  /\ isClient = TRUE
  /\ docs \in Tables
  /\ docs0 = docs
  /\ msgIn \in Msgs
  /\ msgOut = msgIn
  /\ paused = FALSE
  /\ pending = NoPending
  /\ delivered = {}
  /\ err = "none"
  /\ op = "none"
  /\ pc = "call"
  /\ batchSize = 0
  /\ batchReset = FALSE
  /\ batchAdds = EmptyTable
  /\ batchOnlyAdds = TRUE
  /\ tracking = FALSE
  /\ lastMsg = NoLastMsg
  /\ openBatches = 0

(* update(msg) again, with the object the first call may have rewritten;   *)
(* docs0 is the table before this call.                                    *)
ClientCallAgain ==
  /\ pc = "returned"
  /\ isClient
  /\ LET r == ClientUpdate(RunUpdate(msgOut))
     IN  Commit(r) /\ msgOut' = r.msg
  /\ docs0' = docs
  /\ pc' = "again"
  /\ UNCHANGED <<auxVars, isClient, batchVars, openBatches, msgIn>>

NextSoft == ClientCall \/ ClientCallAgain

SpecSoft == InitSoft /\ [][NextSoft]_vars

----------------------------------------------------------------------------
(* The server store with update calls made without waiting for the one    *)
(* before. A call runs to its await in one step: it reads _docs, throws or *)
(* calls the table, whose change is made at the call; it settles later.    *)

BatchTables == PFun(Ids, Documents(BatchFields, BatchValues))

OverlapMsgs == {m \in BatchMsgs : m.msg \in {"added", "removed"}}

InitOverlap ==
  /\ sel = SelOff /\ pub = PubOff /\ reg = RegOff
  /\ colls = CollsOff /\ idx = IdxOff
  /\ inflight = <<>>
  /\ isClient = FALSE
  /\ docs \in BatchTables
  /\ paused = FALSE
  /\ pending = NoPending
  /\ delivered = {}
  /\ err = "none"
  /\ op = "none"
  /\ pc = "serving"
  /\ batchSize = 0
  /\ batchReset = FALSE
  /\ batchAdds = EmptyTable
  /\ batchOnlyAdds = TRUE
  /\ tracking = FALSE
  /\ lastMsg = NoLastMsg
  /\ openBatches = 0
  /\ msgIn = <<>>
  /\ msgOut = <<>>
  /\ docs0 = EmptyTable

(* update(m) is called: found is what it read in _docs, during the calls   *)
(* not settled yet.                                                        *)
OverlapStart(m) ==
  /\ pc = "serving"
  /\ Len(inflight) < MaxBatch
  /\ LET r == ServerUpdate(Run, m)
     IN  /\ Commit(r)
         /\ inflight' = Append(inflight,
              [msg |-> m, found |-> m.id \in DOMAIN docs,
               err |-> r.err, op |-> r.op, settled |-> FALSE,
               during |-> {i \in 1..Len(inflight) : ~inflight[i].settled}])
  /\ UNCHANGED <<sel, pub, reg, colls, idx, isClient, pc, batchVars,
                 openBatches, callVars>>

(* The promise of a call settles. *)
OverlapSettle(i) ==
  /\ pc = "serving"
  /\ i \in 1..Len(inflight)
  /\ ~inflight[i].settled
  /\ inflight' = [inflight EXCEPT ![i].settled = TRUE]
  /\ UNCHANGED <<sel, pub, reg, colls, idx, storeVars>>

NextOverlap ==
  \/ \E m \in OverlapMsgs : OverlapStart(m)
  \/ \E i \in 1..MaxBatch : OverlapSettle(i)

SpecOverlap == InitOverlap /\ [][NextOverlap]_vars

----------------------------------------------------------------------------
(* One call of _rewriteSelector, on any selector and any fallbackId. *)

FallbackIds ==
  {JSUndefined, JS("objectID", 0, <<>>)} \cup {JSString(n) : n \in 0..MaxVal}

InitSel ==
  /\ StoreOff
  /\ RestOff
  /\ pub = PubOff
  /\ reg = RegOff
  /\ sel \in [pc : {"call"}, selector : Selectors, fallbackId : FallbackIds,
              randomId : {JSUndefined}, threw : {"none"}, value : {JSUndefined}]

RewriteSelectorCall ==
  /\ sel.pc = "call"
  /\ \E r \in RandomIds :
       LET res == RewriteSelector(sel.selector, sel.fallbackId, r)
       IN  sel' = [sel EXCEPT !.pc = "returned", !.randomId = r,
                              !.threw = res.threw, !.value = res.value]
  /\ UNCHANGED <<restVars, storeVars, pub, reg>>

NextSel == RewriteSelectorCall

SpecSel == InitSel /\ [][NextSel]_vars

----------------------------------------------------------------------------
(* One call of _publishCursor: the live query of the cursor, the           *)
(* subscription it is published to and the handle it returns.              *)

InitPub ==
  /\ StoreOff
  /\ RestOff
  /\ sel = SelOff
  /\ reg = RegOff
  /\ pub \in [pc : {"start"}, collection : CollectionNames,
              events : {<<>>}, log : {<<>>}, stopped : {FALSE},
              onStop : {0}, subStopped : {FALSE}, handleStops : {0},
              stopRun : {FALSE}, logAtStop : {0}]

(* A stop has run: the length of the subscription's log at the first one. *)
MarkStop(p, before) ==
  IF before.stopRun THEN p
  ELSE [p EXCEPT !.stopRun = TRUE, !.logAtStop = Len(before.log)]

(* ObserveChanges with the stop callback registered before the await. *)
ObserveChanges_RegistersFirst ==
  /\ pub.pc = "start"
  /\ pub' = [pub EXCEPT !.pc = "awaiting", !.onStop = @ + 1]
  /\ UNCHANGED <<restVars, storeVars, sel, reg>>

(* _publishCursor calls cursor.observeChanges and awaits it. *)
ObserveChanges ==
  /\ pub.pc = "start"
  /\ pub' = [pub EXCEPT !.pc = "awaiting"]
  /\ UNCHANGED <<restVars, storeVars, sel, reg>>

(* The live query has a result or a change and calls back, unless its      *)
(* handle is stopped.                                                      *)
LiveQueryEvent(e) ==
  /\ pub.pc \in {"awaiting", "observing"}
  /\ ~pub.stopped
  /\ Len(pub.events) < MaxLen
  /\ pub' = [pub EXCEPT !.events = Append(@, e),
                        !.log = Append(@, Callbacks(pub.collection, e))]
  /\ UNCHANGED <<restVars, storeVars, sel, reg>>

(* RegisterOnStop with sub.ready() called once the query is observed. *)
RegisterOnStop_CallsReady ==
  /\ pub.pc = "awaiting"
  /\ pub' = [pub EXCEPT !.pc = "observing", !.onStop = @ + 1,
                        !.log = Append(@, SubCall("ready", pub.collection,
                                                  Undef, NoFields))]
  /\ UNCHANGED <<restVars, storeVars, sel, reg>>

(* observeChanges has resolved: sub.onStop(...), return observeHandle. *)
RegisterOnStop ==
  /\ pub.pc = "awaiting"
  /\ pub' = [pub EXCEPT !.pc = "observing", !.onStop = @ + 1]
  /\ UNCHANGED <<restVars, storeVars, sel, reg>>

(* The subscription stops and runs its stop callbacks, once. *)
SubscriptionStop ==
  /\ pub.pc = "observing"
  /\ pub.onStop > 0
  /\ ~pub.subStopped
  /\ pub' = MarkStop([OnStopCallback(pub) EXCEPT !.subStopped = TRUE], pub)
  /\ UNCHANGED <<restVars, storeVars, sel, reg>>

(* The caller stops the handle it was returned. *)
EarlyStop ==
  /\ pub.pc = "observing"
  /\ pub.handleStops < MaxStops
  /\ pub' = MarkStop([HandleStop(pub) EXCEPT !.handleStops = @ + 1], pub)
  /\ UNCHANGED <<restVars, storeVars, sel, reg>>

NextPub ==
  \/ ObserveChanges
  \/ \E e \in QueryEvents : LiveQueryEvent(e)
  \/ RegisterOnStop
  \/ SubscriptionStop
  \/ EarlyStop

SpecPub == InitPub /\ [][NextPub]_vars

----------------------------------------------------------------------------
(* One call of _maybeSetUpReplication, up to the registration's outcome.   *)

InitReg ==
  /\ StoreOff
  /\ RestOff
  /\ sel = SelOff
  /\ pub = PubOff
  /\ reg \in [pc : {"start"}, name : CollectionNames, isClient : BOOLEAN,
              hasConnection : BOOLEAN, hasWarn : BOOLEAN,
              result : RegisterResults, registered : {"none"},
              console : {<<>>}, threw : {"none"}]

(* The call up to its return: no connection, no store; else the store of   *)
(* the side is registered and the returned value tested.                   *)
SetUpReplication ==
  /\ reg.pc = "start"
  /\ reg' = IF ~reg.hasConnection THEN [reg EXCEPT !.pc = "done"]
            ELSE AfterRegister([reg EXCEPT !.registered =
                                  IF reg.isClient THEN "client" ELSE "server"])
  /\ UNCHANGED <<restVars, storeVars, sel, pub>>

(* The promise registerStore returned settles. *)
RegisterSettles ==
  /\ reg.pc = "awaiting"
  /\ reg' = ThenCallback(reg)
  /\ UNCHANGED <<restVars, storeVars, sel, pub>>

NextReg == SetUpReplication \/ RegisterSettles

SpecReg == InitReg /\ [][NextReg]_vars

----------------------------------------------------------------------------
(* Properties of one update call (SpecMsg). *)

Returned == pc = "returned"
TargetPresent == msgIn.id \in DOMAIN docs0

(* The documents other than the message's are as they were. *)
OthersUntouched ==
  /\ DOMAIN docs \ {msgIn.id} = DOMAIN docs0 \ {msgIn.id}
  /\ \A i \in DOMAIN docs0 \ {msgIn.id} : docs[i] = docs0[i]

(* C1: in the strict (server) store an added message for an identifier     *)
(* already in the table throws 'Expected not to find a document already    *)
(* present for an add', issues no table operation and leaves the table as  *)
(* it was.                                                                 *)
C1_StrictAddOfPresentRaises ==
  (Returned /\ ~isClient /\ msgIn.msg = "added" /\ TargetPresent)
    => (err = "add_present" /\ op = "none" /\ docs = docs0 /\ delivered = {})

C1_Witness ==
  /\ Returned /\ ~isClient /\ msgIn.msg = "added" /\ TargetPresent
  /\ err = "add_present"
  /\ DOMAIN docs0 = Ids

(* C2: in the strict (server) store a removed or a changed message for an  *)
(* identifier absent from the table throws and issues no table operation.  *)
C2_StrictRemoveOrChangeOfAbsentRaises ==
  (Returned /\ ~isClient /\ msgIn.msg \in {"removed", "changed"} /\ ~TargetPresent)
    => /\ err = (IF msgIn.msg = "removed" THEN "remove_absent" ELSE "change_absent")
       /\ op = "none"
       /\ docs = docs0
       /\ delivered = {}

C2_Witness ==
  /\ Returned /\ ~isClient /\ ~TargetPresent
  /\ msgIn.msg = "changed" /\ DOMAIN msgIn.fields = Fields
  /\ err = "change_absent"
  /\ docs0 # EmptyTable

(* C7: in the soft (client) store an added message for an identifier       *)
(* already in the table is rewritten to changed and throws nothing; the    *)
(* document then holds every value the message carries.                    *)
C7_SoftAddOfPresentIsChange ==
  (Returned /\ isClient /\ msgIn.msg = "added" /\ TargetPresent)
    => /\ err = "none"
       /\ msgOut.msg = "changed"
       /\ msgIn.id \in DOMAIN docs
       /\ \A f \in DOMAIN msgIn.fields :
            f \in DOMAIN docs[msgIn.id] /\ docs[msgIn.id][f] = msgIn.fields[f]

(* added(1, {a:1}) then added(1, {a:2}): the document ends with a = 2. *)
C7_Witness ==
  /\ Returned /\ isClient
  /\ docs0 = (1 :> [a |-> 1])
  /\ msgIn = Msg("added", 1, [a |-> 2], <<>>)
  /\ docs = (1 :> [a |-> 2])
  /\ err = "none"

(* C8: in the soft (client) store a changed message for an identifier      *)
(* absent from the table is rewritten to added: the document inserted      *)
(* holds exactly the message's fields whose value is not undefined, and    *)
(* nothing is thrown.                                                      *)
C8_SoftChangeOfAbsentIsAdd ==
  (Returned /\ isClient /\ msgIn.msg = "changed" /\ ~TargetPresent)
    => /\ err = "none"
       /\ msgOut.msg = "added"
       /\ op = "insert"
       /\ msgIn.id \in DOMAIN docs
       /\ LET kept == {f \in DOMAIN msgIn.fields : msgIn.fields[f] # Undef}
          IN  /\ DOMAIN docs[msgIn.id] = kept
              /\ \A f \in kept : docs[msgIn.id][f] = msgIn.fields[f]
              /\ DOMAIN msgOut.fields = kept
       /\ OthersUntouched

(* changed(1, {a:1, b:undefined}) on an empty table yields {_id:1, a:1}. *)
C8_Witness ==
  /\ Returned /\ isClient
  /\ docs0 = EmptyTable
  /\ msgIn = Msg("changed", 1, [a |-> 1, b |-> Undef], <<>>)
  /\ docs = (1 :> [a |-> 1])

(* C9: in the soft (client) store a removed message for an identifier      *)
(* absent from the table does nothing: no error, no table operation, the   *)
(* table and the observers untouched.                                      *)
C9_SoftRemoveOfAbsentIsNoOp ==
  (Returned /\ isClient /\ msgIn.msg = "removed" /\ ~TargetPresent)
    => /\ err = "none"
       /\ op = "none"
       /\ docs = docs0
       /\ delivered = {}
       /\ pending = NoPending
       /\ msgOut = msgIn

C9_Witness ==
  /\ Returned /\ isClient /\ msgIn.msg = "removed" /\ ~TargetPresent
  /\ docs0 # EmptyTable
  /\ docs = docs0
  /\ err = "none"

(* C10: in the soft (client) store no added, changed or removed message    *)
(* throws, whatever the table: the three strict errors cannot happen.      *)
C10_SoftMergeNeverRaises ==
  (Returned /\ isClient /\ msgIn.msg \in {"added", "changed", "removed"})
    => err = "none"

(* One of the three relaxed cases has been absorbed. *)
C10_Witness ==
  /\ Returned /\ isClient /\ err = "none"
  /\ msgIn.msg = "changed" /\ ~TargetPresent
  /\ msgOut.msg = "added"
  /\ DOMAIN msgIn.fields = Fields

(* C11: a changed message for a document in the table, in either store:    *)
(* each field it names is removed from the document when its value is      *)
(* undefined and set to its value otherwise, the fields it does not name   *)
(* stay as they were; the document is the field-by-field merge of the      *)
(* message into the old document. An update is issued exactly when some    *)
(* named field differs from the document's.                                *)
C11_ChangedMergesFields ==
  (Returned /\ msgIn.msg = "changed" /\ TargetPresent)
    => LET old == docs0[msgIn.id]
           f == msgIn.fields
           cleared == {k \in DOMAIN f : f[k] = Undef}
           given == {k \in DOMAIN f : f[k] # Undef}
       IN  /\ err = "none"
           /\ msgIn.id \in DOMAIN docs
           /\ DOMAIN docs[msgIn.id] = (DOMAIN old \cup given) \ cleared
           /\ \A k \in given : docs[msgIn.id][k] = f[k]
           /\ \A k \in DOMAIN old \ DOMAIN f : docs[msgIn.id][k] = old[k]
           /\ op = (IF \E k \in DOMAIN f : Get(old, k) # f[k] THEN "update" ELSE "none")
           /\ OthersUntouched

(* {a:1, b:2} changed by {a:2, b:undefined} is {a:2}. *)
C11_Witness ==
  /\ Returned /\ ~isClient
  /\ docs0 = (1 :> [a |-> 1, b |-> 2])
  /\ msgIn = Msg("changed", 1, [a |-> 2, b |-> Undef], <<>>)
  /\ docs = (1 :> [a |-> 2])
  /\ op = "update"

(* C12: a changed message whose every field equals the document's current  *)
(* value (or that names no field) issues no table operation: the table is  *)
(* unchanged and the observers get nothing, now or buffered.               *)
C12_DeltaMinimality ==
  (/\ Returned /\ msgIn.msg = "changed" /\ TargetPresent
   /\ \A k \in DOMAIN msgIn.fields : Get(docs0[msgIn.id], k) = msgIn.fields[k])
    => /\ op = "none"
       /\ err = "none"
       /\ docs = docs0
       /\ delivered = {}
       /\ pending = NoPending

(* A message that names both fields, one equal and one already missing. *)
C12_Witness ==
  /\ Returned /\ ~isClient
  /\ docs0 = (1 :> [a |-> 1])
  /\ msgIn = Msg("changed", 1, [a |-> 1, b |-> Undef], <<>>)
  /\ docs = docs0
  /\ op = "none"

(* C13: a replace message does one of four things, in either store:       *)
(* no replacement, document present: the document is removed; no           *)
(* replacement, document absent: nothing; replacement, document absent:    *)
(* the replacement is inserted; replacement, document present: the         *)
(* document becomes exactly the replacement.                               *)
C13_ReplaceFourCases ==
  (Returned /\ msgIn.msg = "replace")
    => /\ OthersUntouched
       /\ IF msgIn.replace = <<>>
            THEN /\ msgIn.id \notin DOMAIN docs
                 /\ op = (IF TargetPresent THEN "remove" ELSE "none")
            ELSE /\ msgIn.id \in DOMAIN docs
                 /\ docs[msgIn.id] = msgIn.replace[1].fields
                 /\ op = (IF TargetPresent THEN "replaceDoc" ELSE "insert")

(* {a:1, b:2} replaced by {a:2}: b does not survive. *)
C13_Witness ==
  /\ Returned /\ ~isClient
  /\ docs0 = (1 :> [a |-> 1, b |-> 2])
  /\ msgIn = Msg("replace", 1, NoFields, <<[_id |-> 1, fields |-> [a |-> 2]]>>)
  /\ docs = (1 :> [a |-> 2])

(* C14: a replace message never throws and is never rewritten, in either   *)
(* store and whatever the table.                                           *)
C14_ReplaceBypassesRules ==
  (Returned /\ msgIn.msg = "replace") => (err = "none" /\ msgOut = msgIn)

(* The cases where an added or a removed message would throw or be         *)
(* rewritten.                                                              *)
C14_Witness ==
  /\ Returned /\ msgIn.msg = "replace" /\ err = "none"
  /\ \/ ~isClient /\ msgIn.replace = <<>> /\ ~TargetPresent
     \/ isClient /\ msgIn.replace # <<>> /\ TargetPresent /\ op = "replaceDoc"

(* C20: a message whose kind is none of added, changed, removed, replace   *)
(* throws "I don't know how to deal with this message" in either store,    *)
(* and the table is as it was.                                             *)
C20_UnknownKindRaises ==
  (Returned /\ msgIn.msg \notin {"added", "changed", "removed", "replace"})
    => /\ err = "unknown_msg"
       /\ op = "none"
       /\ docs = docs0
       /\ delivered = {}
       /\ pending = NoPending

C20_Witness ==
  /\ Returned /\ msgIn.msg = "bogus" /\ err = "unknown_msg"
  /\ msgIn.id \in DOMAIN docs0
  /\ docs = docs0

(* C28: a message touches the document of its own identifier and no       *)
(* other: every other document stays under its identifier as it was, an    *)
(* insert is of a document under the message's identifier where there was  *)
(* none, and the table is never asked for a second document under an       *)
(* identifier or for a change of _id.                                      *)
C28_DocumentIdentity ==
  Returned
    => /\ OthersUntouched
       /\ err \notin {"duplicate_id", "id_mismatch"}
       /\ op = "insert" => (~TargetPresent /\ msgIn.id \in DOMAIN docs)
       /\ op \in {"update", "replaceDoc"} => (TargetPresent /\ msgIn.id \in DOMAIN docs)

(* A document removed from a table of two: the other one stays. *)
C28_Witness ==
  /\ Returned /\ ~isClient
  /\ msgIn.msg = "removed" /\ msgIn.id = 1
  /\ docs0 = (1 :> [a |-> 1] @@ 2 :> [a |-> 2])
  /\ docs = (2 :> [a |-> 2])

(* The message meets the preconditions of the strict store. *)
StrictPreconditions ==
  \/ msgIn.msg = "added" /\ ~TargetPresent
  \/ msgIn.msg \in {"changed", "removed"} /\ TargetPresent
  \/ msgIn.msg = "replace"

(* The call made on the other store, from the same table. *)
OtherStoreResult ==
  LET s == [docs |-> docs0, paused |-> paused, pending |-> NoPending,
            out |-> {}, err |-> "none", op |-> "none"]
      c == [docs |-> docs0, paused |-> paused, pending |-> NoPending,
            out |-> {}, err |-> "none", op |-> "none",
            msg |-> msgIn, done |-> FALSE]
  IN  IF isClient THEN ServerUpdate(s, msgIn)
      ELSE LET r == ClientUpdate(c)
           IN  [docs |-> r.docs, paused |-> r.paused, pending |-> r.pending,
                out |-> r.out, err |-> r.err, op |-> r.op]

(* C29: from the same table, a message that meets the strict               *)
(* preconditions has the same outcome in the client store and in the       *)
(* server store: same table, same table operation, same notifications, no  *)
(* error.                                                                  *)
C29_StoresAgreeUnderStrictPreconditions ==
  (Returned /\ StrictPreconditions)
    => /\ err = "none"
       /\ msgOut = msgIn
       /\ OtherStoreResult = [docs |-> docs, paused |-> paused,
                              pending |-> pending, out |-> delivered,
                              err |-> err, op |-> op]

(* A changed message that updates one field of two. *)
C29_Witness ==
  /\ Returned /\ isClient /\ StrictPreconditions
  /\ docs0 = (1 :> [a |-> 1, b |-> 2])
  /\ msgIn = Msg("changed", 1, [a |-> 1, b |-> 1], <<>>)
  /\ docs = (1 :> [a |-> 1, b |-> 1])
  /\ op = "update"

(* C30: when update throws a protocol violation (an add over a document,   *)
(* a remove or a change of an absent one, an unknown kind) no table        *)
(* operation has been issued: the table is as before the call and nothing  *)
(* is dispatched or buffered.                                              *)
C30_ErrorAtomicity ==
  (Returned /\ err \in {"add_present", "remove_absent", "change_absent", "unknown_msg"})
    => /\ op = "none"
       /\ docs = docs0
       /\ delivered = {}
       /\ pending = NoPending

(* A change of an absent document in a table that holds another. *)
C30_Witness ==
  /\ Returned /\ ~isClient
  /\ err = "change_absent"
  /\ msgIn.id = 1 /\ msgIn.fields = [a |-> 1]
  /\ docs0 = (2 :> [a |-> 2])
  /\ docs = docs0

----------------------------------------------------------------------------
(* Properties of batches (Spec).  pc = "open" holds from a beginUpdate to  *)
(* the matching endUpdate, pc = "idle" right after an endUpdate (and at    *)
(* the start), pc = "failed" after a call of the batch has thrown.         *)

(* No message of the batch has been passed to update yet. *)
BatchFresh == batchOnlyAdds /\ DOMAIN batchAdds = {}

(* C3: in a batch opened by beginUpdate(size > 1, reset = false) the       *)
(* observers are paused and no call before endUpdate dispatches any        *)
(* notification; endUpdate dispatches what was buffered, as one set with   *)
(* at most one notification per document, and leaves nothing buffered.     *)
C3_BatchAtomicity ==
  (batchSize > 1 /\ ~batchReset)
    => /\ pc = "open" => (paused /\ delivered = {})
       /\ pc = "failed" => delivered = {}
       /\ pc = "idle" =>
            /\ ~paused
            /\ pending = NoPending
            /\ \A n, m \in delivered : n.id = m.id => n = m

(* An endUpdate that delivers the changes of two documents at once. *)
C3_Witness ==
  /\ pc = "idle" /\ batchSize > 1 /\ ~batchReset
  /\ Cardinality(delivered) = 2

(* C4: no end of a batch leaves the observers paused: they are resumed     *)
(* when endUpdate returns and also when a call of the batch has thrown.    *)
C4_ObserversResumedOnEveryExit ==
  pc \in {"idle", "failed"} => ~paused

(* C5: after a reset batch whose messages are added messages for distinct  *)
(* identifiers the table holds exactly the documents of those messages,    *)
(* whatever it held before.                                                *)
C5_ResetAndReplay ==
  (pc = "idle" /\ batchReset /\ batchOnlyAdds) => docs = batchAdds

(* Two documents added over a table that held a document before. *)
C5_Witness ==
  /\ pc = "idle" /\ batchReset /\ batchOnlyAdds
  /\ DOMAIN batchAdds = Ids
  /\ docs = batchAdds
  /\ \E n \in delivered : n.kind = "changed"

(* C6: in a reset batch the observers are paused first, then the table is  *)
(* cleared, then messages are applied: the table is empty before the       *)
(* first message and no call before endUpdate dispatches a notification,   *)
(* the removals of the clear included.                                     *)
C6_ResetOrder ==
  (pc = "open" /\ batchReset)
    => /\ paused
       /\ delivered = {}
       /\ BatchFresh => docs = EmptyTable

(* The clear has removed a document and its removal is buffered. *)
C6_Witness ==
  /\ pc = "open" /\ batchReset /\ BatchFresh
  /\ docs = EmptyTable
  /\ \E i \in Ids : pending[i] = "removed"

C17_PausedUpdateMutatesTable ==
  (pc = "open" /\ paused)
    => /\ delivered = {}
       /\ \A i \in Ids :
            /\ pending[i] \in {"added", "changed"} => i \in DOMAIN docs
            /\ pending[i] = "removed" => i \notin DOMAIN docs

(* An insert made while paused: in the table, not yet dispatched. *)
C17_Witness ==
  /\ pc = "open" /\ paused /\ isClient
  /\ op = "insert" /\ err = "none"
  /\ docs = (1 :> [a |-> 1])
  /\ pending[1] = "added"
  /\ delivered = {}

(* C18: a batch opened with a size above 1 or with reset has the observers *)
(* paused from its beginUpdate until its endUpdate.                        *)
C18_LargeOrResetBatchIsPaused ==
  (pc = "open" /\ (batchSize > 1 \/ batchReset)) => paused

(* A reset batch of size at most 1, after a message. *)
C18_Witness ==
  /\ pc = "open" /\ batchSize <= 1 /\ batchReset
  /\ ~BatchFresh /\ err = "none"
  /\ paused

(* C19: a reset leaves the table empty whatever it held, and on an empty   *)
(* table it is a no-op: the table stays empty and no notification is       *)
(* dispatched or buffered. Two reset batches with no message leave the     *)
(* empty table one does.                                                   *)
C19_ResetIdempotent ==
  [][(pc # "open" /\ pc' = "open" /\ batchReset')
       => /\ docs' = EmptyTable
          /\ docs = EmptyTable => (pending' = pending /\ delivered' = {})]_vars

(* A reset of a table that is empty and has nothing buffered. *)
C19_Witness ==
  /\ pc = "open" /\ batchReset /\ BatchFresh
  /\ op = "removeAll"
  /\ docs = EmptyTable
  /\ pending = NoPending

----------------------------------------------------------------------------
(* Properties of the order of messages (SpecOrder). *)

(* C15: messages take effect in the order they are passed to update, in a  *)
(* batch and from one batch to the next: the document Watched is what the  *)
(* last message applied to it made of it, whatever messages came before.   *)
C15_MessageOrder ==
  LET l == lastMsg
      i == Watched
  IN  CASE l.msg \in {"none", "removed"} -> i \notin DOMAIN docs
        [] l.msg = "replace" ->
             IF l.replace = <<>> THEN i \notin DOMAIN docs
             ELSE i \in DOMAIN docs /\ docs[i] = l.replace[1].fields
        [] l.msg \in {"added", "changed"} ->
             /\ i \in DOMAIN docs
             /\ \A k \in DOMAIN l.fields : Get(docs[i], k) = l.fields[k]
             /\ (l.msg = "added" /\ ~isClient) => docs[i] = l.fields
        [] OTHER -> FALSE

(* In a reset batch of the strict store the document was added, then       *)
(* removed.                                                                *)
C15_Witness ==
  /\ tracking /\ ~isClient
  /\ pc = "open" /\ batchReset
  /\ lastMsg.msg = "removed"
  /\ Watched \notin DOMAIN docs

----------------------------------------------------------------------------
(* Properties of the framing of batches (SpecFraming). *)

(* C21: an endUpdate with no beginUpdate open throws; it does not resume   *)
(* the observers and return.                                               *)
C21_StrayEndUpdateRaises ==
  pc = "strayEnd" => err # "none"

----------------------------------------------------------------------------
(* Properties of _rewriteSelector (SpecSel). *)

SelReturned == sel.pc = "returned"

(* The selector is falsy, or an object whose _id is there and falsy. *)
SelFalsy ==
  \/ ~Truthy(sel.selector)
  \/ /\ sel.selector.t = "object"
     /\ "_id" \in DOMAIN sel.selector.fields
     /\ ~Truthy(sel.selector.fields["_id"])

(* C22: _rewriteSelector throws "Mongo selector can't be an array." for    *)
(* every array, the empty one included, and returns no selector for it.    *)
C22_ArraySelectorRaises ==
  (SelReturned /\ sel.selector.t = "array")
    => (sel.threw = "selector_array" /\ sel.value = JSUndefined)

C22_Witness ==
  /\ SelReturned
  /\ sel.selector = JS("array", 0, <<>>)
  /\ sel.threw = "selector_array"

(* C23: for a falsy selector, and for an object whose _id is present and   *)
(* falsy, _rewriteSelector returns the selector {_id: id} on one           *)
(* identifier: the fallbackId when one is given, else what Random.id()     *)
(* returned; the identifier is not falsy, so the selector does not match   *)
(* every document.                                                         *)
C23_FalsySelectorIsOneId ==
  (SelReturned /\ SelFalsy)
    => /\ sel.threw = "none"
       /\ sel.value.t = "object"
       /\ DOMAIN sel.value.fields = {"_id"}
       /\ sel.value.fields["_id"] =
            (IF Truthy(sel.fallbackId) THEN sel.fallbackId ELSE sel.randomId)
       /\ Truthy(sel.value.fields["_id"])

(* {_id: undefined, a: 1} with no fallbackId. *)
C23_Witness ==
  /\ SelReturned
  /\ sel.selector = JSObject([_id |-> JSUndefined, a |-> JS("number", 1, <<>>)])
  /\ sel.fallbackId = JSUndefined
  /\ sel.value.fields["_id"] \in RandomIds

----------------------------------------------------------------------------
(* Properties of _publishCursor (SpecPub). *)

(* C24: every added, changed and removed of the live query is forwarded    *)
(* as sub.added, sub.changed, sub.removed with the collection name given,  *)
(* the same identifier and the same fields, in the order of the events,    *)
(* and the subscription gets no other call.                                *)
C24_EventsForwardedInOrder ==
  pub.pc # "off"
    => /\ Len(pub.log) = Len(pub.events)
       /\ \A i \in 1..Len(pub.events) :
            pub.log[i] = [method |-> pub.events[i].kind,
                          collection |-> pub.collection,
                          id |-> pub.events[i].id,
                          fields |-> pub.events[i].fields]

(* A document added while observeChanges is awaited, changed after. *)
C24_Witness ==
  /\ pub.pc = "observing"
  /\ pub.collection = "posts"
  /\ pub.events = <<QueryEvent("added", 1, NoFields),
                    QueryEvent("changed", 1, [a |-> 1])>>
  /\ pub.log = <<SubCall("added", "posts", 1, NoFields),
                 SubCall("changed", "posts", 1, [a |-> 1])>>

(* C25: once the stop callback of the subscription or the stop of the      *)
(* handle has run, nothing more is forwarded to the subscription, and a    *)
(* further stop changes nothing.                                           *)
C25_NothingForwardedAfterStop ==
  (pub.pc # "off" /\ pub.stopRun)
    => /\ Len(pub.log) = pub.logAtStop
       /\ pub.stopped

(* The handle stopped early, twice, then the subscription stopped, after   *)
(* an event had been forwarded.                                            *)
C25_Witness ==
  /\ pub.pc = "observing"
  /\ pub.stopRun /\ pub.subStopped /\ pub.handleStops = 2
  /\ pub.logAtStop = 1
  /\ Len(pub.log) = 1

(* C26: _publishCursor never calls sub.ready().                            *)
C26_NeverReady ==
  pub.pc # "off" => \A i \in 1..Len(pub.log) : pub.log[i].method # "ready"

(* _publishCursor has returned, after it forwarded the initial documents. *)
C26_Witness ==
  /\ pub.pc = "observing" /\ pub.onStop = 1
  /\ Len(pub.log) = MaxLen
  /\ \A i \in 1..Len(pub.log) : pub.log[i].method = "added"

----------------------------------------------------------------------------
(* Properties of the registration (SpecReg). *)

(* C27: when registerStore returns a falsy value, or a promise that        *)
(* resolves to one, the setup ends with the warning 'There is already a    *)
(* collection named "name"' written once to the console and nothing        *)
(* thrown.                                                                 *)
C27_RegistrationConflictWarns ==
  (/\ reg.pc = "done" /\ reg.hasConnection
   /\ RegisterFalsy(reg.result.value))
    => /\ reg.threw = "none"
       /\ Len(reg.console) = 1
       /\ reg.console[1].message = "There is already a collection named"
       /\ reg.console[1].name = reg.name

(* The client store refused at once; the server store refused by a         *)
(* promise.                                                                *)
C27_Witness ==
  /\ reg.pc = "done" /\ reg.hasConnection
  /\ reg.threw = "none" /\ Len(reg.console) = 1
  /\ \/ reg.registered = "client" /\ reg.result = [promise |-> FALSE, value |-> "false"]
     \/ reg.registered = "server" /\ reg.result = [promise |-> TRUE, value |-> "undefined"]

----------------------------------------------------------------------------
(* The constructor Mongo.Collection and the registry Mongo._collections.   *)

JSNull == JS("null", 0, <<>>)

(* What a caller passes as name: nothing, null, a number, a string. *)
NameArgs ==
  {JSUndefined, JSNull}
    \cup {JS("number", n, <<>>) : n \in {0, 1}}
    \cup {JSString(n) : n \in 0..MaxVal}

(* options: connection is FALSE for connection: null; the two flags are    *)
(* options.defineMutationMethods !== false and                             *)
(* options._suppressSameNameError === true.                                *)
CollectionOptions ==
  [connection : BOOLEAN, defineMutationMethods : BOOLEAN,
   suppressSameNameError : BOOLEAN]

(* A falsy name other than null makes an anonymous collection. *)
NormalName(name) ==
  IF ~Truthy(name) /\ name.t # "null" THEN JSNull ELSE name

(* Mongo.getCollection: Map.get, undefined for a key never set. *)
GetCollection(registry, name) ==
  IF name \in DOMAIN registry THEN registry[name] ELSE Undef

(* Map.set *)
MapSet(registry, key, value) ==
  [k \in DOMAIN registry \cup {key} |->
     IF k = key THEN value ELSE registry[k]]

(* _defineMutationMethods throws 'A method named ... is already defined'   *)
(* for a name whose methods the connection has, unless useExisting.        *)
AlreadyDefined(methods, name, useExisting) ==
  name \in methods /\ ~useExisting

(* The constructor's first lines: the call counted, its arguments and the  *)
(* registry before it kept.                                                *)
ConstructStart(c, name, options) ==
  [c EXCEPT !.made = @ + 1, !.arg = name, !.options = options,
            !.before = c.registry, !.threw = "none"]

(* The constructor putting the collection in the registry first. *)
Construct_RegistersFirst(c, name, options) ==
  LET n == NormalName(name)
      s == ConstructStart(c, name, options)
      this == c.made + 1
      connected == Truthy(n) /\ options.connection
      defines == options.defineMutationMethods /\ connected
  IN  IF n.t \notin {"null", "string"} THEN [s EXCEPT !.threw = "name_type"]
      ELSE IF defines /\ AlreadyDefined(c.methods, n, options.suppressSameNameError)
        THEN [s EXCEPT !.threw = "already_named",
                       !.registry = MapSet(c.registry, n, this)]
      ELSE [s EXCEPT !.methods = IF defines THEN @ \cup {n} ELSE @,
                     !.registry = MapSet(c.registry, n, this),
                     !.log = Append(@, [name |-> n, collection |-> this])]

(* new Mongo.Collection(name, options) on the state c of the process. The  *)
(* collection made is numbered by the call. The mutation methods are       *)
(* defined on the connection, which a nameless collection never has;       *)
(* defining them again throws unless useExisting is passed. The registry   *)
(* is set in the constructor's last statement.                             *)
Construct(c, name, options) ==
  LET n == NormalName(name)
      s == ConstructStart(c, name, options)
      this == c.made + 1
      connected == Truthy(n) /\ options.connection
      defines == options.defineMutationMethods /\ connected
  IN  IF n.t \notin {"null", "string"} THEN [s EXCEPT !.threw = "name_type"]
      ELSE IF defines /\ AlreadyDefined(c.methods, n, options.suppressSameNameError)
        THEN [s EXCEPT !.threw = "already_named"]
      ELSE [s EXCEPT !.methods = IF defines THEN @ \cup {n} ELSE @,
                     !.registry = MapSet(c.registry, n, this),
                     !.log = Append(@, [name |-> n, collection |-> this])]

InitRegistry ==
  /\ StoreOff
  /\ sel = SelOff /\ pub = PubOff /\ reg = RegOff
  /\ inflight = <<>> /\ idx = IdxOff
  /\ colls = [pc |-> "on", registry |-> <<>>, methods |-> {}, log |-> <<>>,
              made |-> 0, arg |-> JSNull,
              options |-> [connection |-> FALSE,
                           defineMutationMethods |-> FALSE,
                           suppressSameNameError |-> FALSE],
              before |-> <<>>, threw |-> "none"]

NewCollection(name, options) ==
  /\ colls.pc = "on"
  /\ colls.made <= MaxLen
  /\ colls' = Construct(colls, name, options)
  /\ UNCHANGED <<inflight, idx, storeVars, sel, pub, reg>>

NextRegistry ==
  \E name \in NameArgs, options \in CollectionOptions :
    NewCollection(name, options)

SpecRegistry == InitRegistry /\ [][NextRegistry]_vars

----------------------------------------------------------------------------
(* createIndexAsync of a collection. What the driver does with each call   *)
(* is drawn when the call is made: first is the outcome of the first       *)
(* createIndexAsync, "mismatch" being the error 'An equivalent index       *)
(* already exists with the same name but different options.'               *)

IndexOutcomes == {"ok", "mismatch", "other"}

NoError == [type |-> "none", collection |-> "none"]
(* new Meteor.Error(`An error occurred when creating an index for          *)
(* collection "${ self._name }: ${ e.message }`)                           *)
IndexError(name) == [type |-> "Meteor.Error", collection |-> name]
(* An error of the driver, thrown on as it is. *)
DriverError == [type |-> "driver", collection |-> "none"]
ServerOnlyError == [type |-> "server_only", collection |-> "none"]

InitIndex ==
  /\ StoreOff
  /\ sel = SelOff /\ pub = PubOff /\ reg = RegOff
  /\ inflight = <<>> /\ colls = CollsOff
  /\ idx \in [pc : {"start"}, name : CollectionNames,
              hasCreateIndex : BOOLEAN, reCreate : BOOLEAN,
              first : IndexOutcomes, drop : {"ok", "other"},
              second : IndexOutcomes, calls : {<<>>},
              console : {"none"}, threw : {NoError}]

(* The call up to its first await. *)
CreateIndexCall ==
  /\ idx.pc = "start"
  /\ idx' = IF ~idx.hasCreateIndex
              THEN [idx EXCEPT !.pc = "done", !.threw = ServerOnlyError]
              ELSE [idx EXCEPT !.pc = "creating",
                               !.calls = Append(@, "create")]
  /\ UNCHANGED <<inflight, colls, storeVars, sel, pub, reg>>

(* The first createIndexAsync settling, with the recovery chosen on the    *)
(* error's message alone.                                                  *)
CreateSettles_IgnoresSetting ==
  /\ idx.pc = "creating"
  /\ idx' = CASE idx.first = "ok" -> [idx EXCEPT !.pc = "done"]
              [] idx.first = "mismatch" ->
                   [idx EXCEPT !.pc = "dropping", !.console = "info",
                               !.calls = Append(@, "drop")]
              [] OTHER ->
                   [idx EXCEPT !.pc = "done", !.console = "error",
                               !.threw = IndexError(idx.name)]
  /\ UNCHANGED <<inflight, colls, storeVars, sel, pub, reg>>

(* The first createIndexAsync settles: the call returns, or the catch      *)
(* block starts the recovery, or logs and throws.                          *)
CreateSettles ==
  /\ idx.pc = "creating"
  /\ idx' = CASE idx.first = "ok" -> [idx EXCEPT !.pc = "done"]
              [] idx.first = "mismatch" /\ idx.reCreate ->
                   [idx EXCEPT !.pc = "dropping", !.console = "info",
                               !.calls = Append(@, "drop")]
              [] OTHER ->
                   [idx EXCEPT !.pc = "done", !.console = "error",
                               !.threw = IndexError(idx.name)]
  /\ UNCHANGED <<inflight, colls, storeVars, sel, pub, reg>>

(* dropIndexAsync settles; its error leaves the catch block as it is. *)
DropSettles ==
  /\ idx.pc = "dropping"
  /\ idx' = IF idx.drop = "ok"
              THEN [idx EXCEPT !.pc = "recreating",
                               !.calls = Append(@, "create")]
              ELSE [idx EXCEPT !.pc = "done", !.threw = DriverError]
  /\ UNCHANGED <<inflight, colls, storeVars, sel, pub, reg>>

(* The second createIndexAsync settles; its error leaves the catch block   *)
(* as it is.                                                               *)
RecreateSettles ==
  /\ idx.pc = "recreating"
  /\ idx' = IF idx.second = "ok"
              THEN [idx EXCEPT !.pc = "done"]
              ELSE [idx EXCEPT !.pc = "done", !.threw = DriverError]
  /\ UNCHANGED <<inflight, colls, storeVars, sel, pub, reg>>

NextIndex ==
  \/ CreateIndexCall
  \/ CreateSettles
  \/ DropSettles
  \/ RecreateSettles

SpecIndex == InitIndex /\ [][NextIndex]_vars

----------------------------------------------------------------------------
(* Properties of the client store given a message twice (SpecSoft). *)

(* C31: in the client store an added message for a document in the table   *)
(* merges its fields into the document: the fields it names take its       *)
(* values, the fields it does not name keep theirs.                        *)
C31_SoftAddedIsMerge ==
  (Returned /\ msgIn.msg = "added" /\ TargetPresent)
    => LET old == docs0[msgIn.id]
       IN  /\ err = "none"
           /\ msgIn.id \in DOMAIN docs
           /\ DOMAIN docs[msgIn.id] = DOMAIN old \cup DOMAIN msgIn.fields
           /\ \A k \in DOMAIN msgIn.fields : docs[msgIn.id][k] = msgIn.fields[k]
           /\ \A k \in DOMAIN old \ DOMAIN msgIn.fields : docs[msgIn.id][k] = old[k]

(* {a:1, b:2} after added(1, {a:2}) is {a:2, b:2}. *)
C31_Witness ==
  /\ Returned
  /\ docs0 = (1 :> [a |-> 1, b |-> 2])
  /\ msgIn = Msg("added", 1, [a |-> 2], <<>>)
  /\ docs = (1 :> [a |-> 2, b |-> 2])

(* C32: an added, changed or removed message given to the client store a   *)
(* second time, as the first call left it, issues no table operation,      *)
(* throws nothing and leaves the table the first call made.                *)
C32_SoftIdempotence ==
  (pc = "again" /\ msgIn.msg \in {"added", "changed", "removed"})
    => /\ err = "none"
       /\ op = "none"
       /\ docs = docs0
       /\ delivered = {}

(* A changed for an absent document: the first call rewrote it to added    *)
(* and dropped the undefined field, the second finds the document.         *)
C32_Witness ==
  /\ pc = "again"
  /\ msgIn = Msg("changed", 1, [a |-> 1, b |-> Undef], <<>>)
  /\ msgOut = Msg("changed", 1, [a |-> 1], <<>>)
  /\ docs = (1 :> [a |-> 1])
  /\ docs0 = docs

----------------------------------------------------------------------------
(* Properties of overlapping updates of the server store (SpecOverlap). *)

(* Call j is an added for the identifier of the added call i, made while   *)
(* i had not settled, with no call for the identifier between the two.     *)
AddedWhileAdding(i, j) ==
  /\ i < j
  /\ inflight[i].msg.msg = "added" /\ inflight[j].msg.msg = "added"
  /\ inflight[i].msg.id = inflight[j].msg.id
  /\ i \in inflight[j].during
  /\ \A k \in (i + 1)..(j - 1) : inflight[k].msg.id # inflight[i].msg.id

(* C33: of two added messages for one absent identifier in flight at once  *)
(* in the server store, the first inserts and the second throws 'Expected  *)
(* not to find a document already present for an add' with no table call;  *)
(* the table is never given a second insert for an identifier it holds.    *)
C33_OverlappingAdds ==
  /\ \A i, j \in 1..Len(inflight) :
       (AddedWhileAdding(i, j) /\ ~inflight[i].found)
         => /\ inflight[i].op = "insert" /\ inflight[i].err = "none"
            /\ inflight[j].op = "none" /\ inflight[j].err = "add_present"
  /\ \A k \in 1..Len(inflight) : inflight[k].err # "duplicate_id"

(* Two adds of document 1 in flight, neither settled. *)
C33_Witness ==
  /\ Len(inflight) = 2
  /\ AddedWhileAdding(1, 2)
  /\ inflight[1].msg.id = 1
  /\ ~inflight[1].found /\ ~inflight[1].settled /\ ~inflight[2].settled
  /\ inflight[2].err = "add_present"
  /\ 1 \in DOMAIN docs

----------------------------------------------------------------------------
(* More properties of batches (Spec), of _rewriteSelector (SpecSel) and of *)
(* _publishCursor (SpecPub).                                               *)

(* C34: in a batch opened with a size of at most 1 and no reset the        *)
(* observers are not paused and nothing is buffered: the notification of   *)
(* an update is dispatched by the update, however many updates are made.   *)
C34_SmallBatchNotPaused ==
  (pc = "open" /\ batchSize <= 1 /\ ~batchReset)
    => (~paused /\ pending = NoPending)

(* C35: _rewriteSelector returns an object selector with no falsy _id as   *)
(* it is, the empty object too; a number, a string or an ObjectID becomes  *)
(* the selector {_id: it}, and when it is falsy (0, '') the selector on    *)
(* the fallbackId or on a random identifier.                               *)
C35_SelectorPassThrough ==
  SelReturned
    => /\ (sel.selector.t = "object" /\ ~SelFalsy)
            => (sel.threw = "none" /\ sel.value = sel.selector)
       /\ sel.selector.t \in {"number", "string", "objectID"}
            => /\ sel.threw = "none"
               /\ sel.value =
                    JSObject([k \in {"_id"} |->
                      IF Truthy(sel.selector) THEN sel.selector
                      ELSE IF Truthy(sel.fallbackId) THEN sel.fallbackId
                      ELSE sel.randomId])

(* The empty object is returned; it selects every document. *)
C35_Witness ==
  /\ SelReturned
  /\ sel.selector = JSObject(NoFields)
  /\ sel.value = JSObject(NoFields)
  /\ sel.threw = "none"

(* C36: the stop callback is registered with the subscription once         *)
(* observeChanges has resolved: none is registered while the initial       *)
(* documents are forwarded, and one, no more, once _publishCursor has      *)
(* returned.                                                               *)
C36_StopCallbackAfterSnapshot ==
  /\ pub.pc \in {"start", "awaiting"} => pub.onStop = 0
  /\ pub.pc = "observing" => pub.onStop = 1

(* The initial documents are being forwarded. *)
C36_Witness ==
  /\ pub.pc = "awaiting"
  /\ Len(pub.log) = MaxLen
  /\ pub.onStop = 0

----------------------------------------------------------------------------
(* Properties of the registry (SpecRegistry) and of createIndexAsync       *)
(* (SpecIndex).                                                            *)

RECURSIVE LastConstructed(_, _)
(* The collection of the last entry of log that has the name, or Undef. *)
LastConstructed(log, name) ==
  IF log = <<>> THEN Undef
  ELSE IF log[Len(log)].name = name THEN log[Len(log)].collection
  ELSE LastConstructed(SubSeq(log, 1, Len(log) - 1), name)

(* C37: getCollection of a name is the collection last constructed with    *)
(* that name without an error, undefined if there is none; a construction  *)
(* that throws leaves the registry as it was.                              *)
C37_RegistryHoldsLastConstructed ==
  colls.pc = "on"
    => /\ \A name \in NameArgs :
            GetCollection(colls.registry, name)
              = LastConstructed(colls.log, name)
       /\ colls.threw # "none" => colls.registry = colls.before

(* A name constructed twice, and then a construction of it that throws. *)
C37_Witness ==
  /\ colls.pc = "on"
  /\ colls.threw = "already_named"
  /\ Len(colls.log) = 2
  /\ colls.log[1].name = colls.arg
  /\ colls.log[2].name = colls.arg
  /\ GetCollection(colls.registry, colls.arg) = colls.log[2].collection

(* C38: when the first creation fails with the option mismatch and the     *)
(* setting is on, the index is dropped and then created again; when it     *)
(* fails otherwise, or the setting is off, nothing is dropped and the      *)
(* error thrown names the collection.                                      *)
C38_IndexRecovery ==
  (idx.pc \in {"dropping", "recreating", "done"} /\ idx.hasCreateIndex
     /\ idx.first # "ok")
    => IF idx.first = "mismatch" /\ idx.reCreate
         THEN /\ SubSeq(idx.calls, 1, 2) = <<"create", "drop">>
              /\ idx.pc = "dropping" => idx.calls = <<"create", "drop">>
              /\ (idx.pc = "recreating" \/ (idx.pc = "done" /\ idx.drop = "ok"))
                   => idx.calls = <<"create", "drop", "create">>
              /\ (idx.pc = "done" /\ idx.drop # "ok")
                   => idx.calls = <<"create", "drop">>
         ELSE /\ idx.calls = <<"create">>
              /\ idx.pc = "done"
              /\ idx.threw = IndexError(idx.name)

(* The recovery has run to its end. *)
C38_Witness ==
  /\ idx.pc = "done"
  /\ idx.first = "mismatch" /\ idx.reCreate
  /\ idx.calls = <<"create", "drop", "create">>
  /\ idx.threw = NoError

====
